---------------------------- MODULE Spec2Model ----------------------------
(***************************************************************************)
(* A model of satori.py: the disk-backed memoization cache (Cache, cached), *)
(* the session with its settings file and transparent login (Session),     *)
(* the resolvers (match_contest, match_problem, match_submit_problem),      *)
(* the status poller (wait) and the temp-file-then-rename persistence       *)
(* (Cache.save, Session.save).                                              *)
(*                                                                          *)
(* Python strings are sequences of symbols (one-character TLA+ strings, or  *)
(* an atom such as "username" where only identity matters).  Python values  *)
(* are tagged records, so that a tuple and a list of the same items differ  *)
(* as they do in Python.  A Python dict is an association list.             *)
(*                                                                          *)
(* Environment assumed throughout: the remote site answers every request    *)
(* that carries a token with the well-formed pages given below, the          *)
(* cache directory exists, and notify-send is installed.                    *)
(***************************************************************************)
EXTENDS Integers, Sequences, FiniteSets, TLC

(***************************************************************************)
(* Bounds of the model.                                                     *)
(***************************************************************************)
MaxOps == 2        \* operations performed in one behaviour of Spec
MaxRuns == 2       \* process runs in one behaviour of Spec
MaxPolls == 4      \* length of the scripted status sequence of SpecWait
NumSuffix == 2     \* temp-file suffixes that random.randrange draws from
MaxSaves == 2      \* saves started in SpecSave and SpecSave1, all processes together

(***************************************************************************)
(* Python values.                                                           *)
(***************************************************************************)
PyInt(n) == [t |-> "int", n |-> n, s |-> <<>>, items |-> <<>>]
PyStr(s) == [t |-> "str", n |-> 0, s |-> s, items |-> <<>>]
PyNone == [t |-> "none", n |-> 0, s |-> <<>>, items |-> <<>>]
PyTuple(items) == [t |-> "tuple", n |-> 0, s |-> <<>>, items |-> items]
PyList(items) == [t |-> "list", n |-> 0, s |-> <<>>, items |-> items]

\* Python truthiness (`if pdf:`, `if status`, `for ... in get_contests(query)`).
Truthy(v) ==
    CASE v.t = "int" -> v.n # 0
      [] v.t = "str" -> v.s # <<>>
      [] v.t = "none" -> FALSE
      [] OTHER -> v.items # <<>>

(***************************************************************************)
(* Strings.                                                                 *)
(***************************************************************************)
\* str.lower() on one symbol.
LowerChar(c) ==
    CASE c = "A" -> "a"
      [] c = "B" -> "b"
      [] c = "L" -> "l"
      [] OTHER -> c

Lower(s) == [i \in DOMAIN s |-> LowerChar(s[i])]

\* `a in b` on strings: a is a contiguous substring of b.
Contains(b, a) ==
    \E i \in 0..(Len(b) - Len(a)) : SubSeq(b, i + 1, i + Len(a)) = a

\* s.startswith(p)
StartsWith(s, p) == Len(p) <= Len(s) /\ SubSeq(s, 1, Len(p)) = p

Digits == {"0", "1", "2", "3", "4", "5", "6", "7", "8", "9"}

DigitVal(c) ==
    CASE c = "0" -> 0 [] c = "1" -> 1 [] c = "2" -> 2 [] c = "3" -> 3
      [] c = "4" -> 4 [] c = "5" -> 5 [] c = "6" -> 6 [] c = "7" -> 7
      [] c = "8" -> 8 [] c = "9" -> 9

DigitChar(d) == <<"0", "1", "2", "3", "4", "5", "6", "7", "8", "9">>[d + 1]

RECURSIVE DigitsVal(_)
DigitsVal(s) ==
    IF s = <<>> THEN 0
    ELSE 10 * DigitsVal(SubSeq(s, 1, Len(s) - 1)) + DigitVal(s[Len(s)])

AllDigits(s) == s # <<>> /\ \A i \in DOMAIN s : s[i] \in Digits

\* int(s) on a string: an optional sign and at least one digit; anything else is
\* ValueError.
IsIntStr(s) ==
    IF s # <<>> /\ s[1] \in {"-", "+"} THEN AllDigits(Tail(s)) ELSE AllDigits(s)

IntOfStr(s) ==
    IF s[1] = "-" THEN 0 - DigitsVal(Tail(s))
    ELSE IF s[1] = "+" THEN DigitsVal(Tail(s))
    ELSE DigitsVal(s)

\* int(x) succeeds: x is an int already, or a string that parses.
IntOk(v) == v.t = "int" \/ (v.t = "str" /\ IsIntStr(v.s))

IntOf(v) == IF v.t = "int" THEN v.n ELSE IntOfStr(v.s)

\* '%d' % n
RECURSIVE NatStr(_)
NatStr(n) ==
    IF n < 10 THEN <<DigitChar(n)>>
    ELSE NatStr(n \div 10) \o <<DigitChar(n % 10)>>

IntStr(n) == IF n < 0 THEN <<"-">> \o NatStr(0 - n) ELSE NatStr(n)

\* s.split(sep) for a one-symbol separator: the pieces between separators.
RECURSIVE Split(_, _)
Split(s, sep) ==
    IF \A i \in DOMAIN s : s[i] # sep THEN <<s>>
    ELSE LET k == CHOOSE i \in DOMAIN s :
                     s[i] = sep /\ \A j \in 1..(i - 1) : s[j] # sep
         IN <<SubSeq(s, 1, k - 1)>> \o Split(SubSeq(s, k + 1, Len(s)), sep)

RECURSIVE Join(_, _)
Join(parts, sep) ==
    IF parts = <<>> THEN <<>>
    ELSE IF Len(parts) = 1 THEN parts[1]
    ELSE parts[1] \o sep \o Join(Tail(parts), sep)

\* repr() of the values that occur as arguments: ints, byte strings over an
\* alphabet that needs no escaping, and tuples of them.
RECURSIVE Repr(_)
Repr(v) ==
    CASE v.t = "int" -> IntStr(v.n)
      [] v.t = "str" -> <<"'">> \o v.s \o <<"'">>
      [] v.t = "none" -> <<"None">>
      [] v.t = "tuple" ->
            <<"(">> \o Join([i \in DOMAIN v.items |-> Repr(v.items[i])], <<",", " ">>)
                    \o (IF Len(v.items) = 1 THEN <<",">> ELSE <<>>) \o <<")">>
      [] OTHER ->
            <<"[">> \o Join([i \in DOMAIN v.items |-> Repr(v.items[i])], <<",", " ">>)
                    \o <<"]">>

\* src/satori.py:29 match_code
match_code(query, code) ==
    LET q == Lower(query)
        c == Lower(code)
    IN q = c \/ q \o <<"*">> = c

(***************************************************************************)
(* Python dicts, as association lists.                                      *)
(***************************************************************************)
EmptyDict == <<>>

DictHas(d, k) == \E i \in DOMAIN d : d[i].k = k

DictGet(d, k) == d[CHOOSE i \in DOMAIN d : d[i].k = k].v

DictSet(d, k, v) ==
    IF DictHas(d, k)
    THEN [i \in DOMAIN d |-> IF d[i].k = k THEN [k |-> k, v |-> v] ELSE d[i]]
    ELSE Append(d, [k |-> k, v |-> v])

DictKeys(d) == {d[i].k : i \in DOMAIN d}

(***************************************************************************)
(* json.dump / json.load.  A file's content is a sequence of tokens: an     *)
(* opening brace, one token per key/value pair, a closing brace.  A NUL     *)
(* token is a hole left by a write past the end of a truncated file.        *)
(***************************************************************************)
Tok(kind) == [tok |-> kind, k |-> <<>>, v |-> PyNone]
TokKV(k, v) == [tok |-> "kv", k |-> k, v |-> v]

\* The JSON text of a Python value: a tuple and a list are both an array.
RECURSIVE JsonEnc(_)
JsonEnc(v) ==
    CASE v.t = "int" -> [t |-> "number", n |-> v.n, s |-> <<>>, items |-> <<>>]
      [] v.t = "str" -> [t |-> "string", n |-> 0, s |-> v.s, items |-> <<>>]
      [] v.t = "none" -> [t |-> "null", n |-> 0, s |-> <<>>, items |-> <<>>]
      [] OTHER -> [t |-> "array", n |-> 0, s |-> <<>>,
                   items |-> [i \in DOMAIN v.items |-> JsonEnc(v.items[i])]]

\* The Python value of a JSON text: an array is a list.  (A JSON string loads
\* as unicode, which Python 2 compares equal to the byte string.)
RECURSIVE JsonDec(_)
JsonDec(j) ==
    CASE j.t = "number" -> PyInt(j.n)
      [] j.t = "string" -> PyStr(j.s)
      [] j.t = "null" -> PyNone
      [] OTHER -> PyList([i \in DOMAIN j.items |-> JsonDec(j.items[i])])

json_dump(d) ==
    <<Tok("{")>> \o [i \in DOMAIN d |-> TokKV(d[i].k, JsonEnc(d[i].v))] \o <<Tok("}")>>

\* json.load accepts exactly a complete text; anything else is ValueError.
json_ok(text) ==
    /\ Len(text) >= 2
    /\ text[1].tok = "{"
    /\ text[Len(text)].tok = "}"
    /\ \A i \in 2..(Len(text) - 1) : text[i].tok = "kv"

json_load(text) ==
    [i \in 1..(Len(text) - 2) |-> [k |-> text[i + 1].k, v |-> JsonDec(text[i + 1].v)]]

(***************************************************************************)
(* The remote site (the environment).  Pages are given as the rows the page *)
(* parser extracts from them.                                               *)
(***************************************************************************)
\* /contest/select: the user's own table, then the table of other contests.
\* A row is the text and the href of its a.stdlink.
ContestTables ==
    << << [name |-> <<"A", "l">>, link |-> <<"/", "contest", "/", "3", "/">>],
          [name |-> <<"n">>, link |-> <<"/", "news", "/", "1">>] >>,
       << [name |-> <<"L", "a", "b">>, link |-> <<"/", "contest", "/", "4", "/">>] >> >>

\* /contest/<cid>/problems: code, title, description, the PDF href (None when
\* the row has no PDF link) and what find('.stdlink') gives in the title cell:
\* a PyQuery, which is a list, of the links found (here, of their hrefs).
NoUrl == PyList(<<>>)
Link(href) == PyList(<<PyStr(href)>>)

ProblemRows(cid) ==
    CASE cid = 3 ->
           << [code |-> <<"a", "b">>, name |-> <<"t1">>, desc |-> <<"d1">>,
               pdf |-> PyNone, url |-> Link(<<"/", "u", "/", "9">>)],
              [code |-> <<"A", "*">>, name |-> <<"t2">>, desc |-> <<"d2">>,
               pdf |-> PyStr(<<"/", "v", "/", "p", "/", "1", "0", "/", "f">>),
               url |-> NoUrl],
              [code |-> <<"a">>, name |-> <<"t3">>, desc |-> <<"d3">>,
               pdf |-> PyStr(<<"/", "v", "/", "p", "/", "1", "1", "/", "f">>),
               url |-> Link(<<"/", "u", "/", "1", "1">>)] >>
      [] cid = 4 ->
           << [code |-> <<"B">>, name |-> <<"t4">>, desc |-> <<"d4">>,
               pdf |-> PyStr(<<"/", "v", "/", "p", "/", "2", "0", "/", "f">>),
               url |-> Link(<<"/", "u", "/", "2", "0">>)] >>
      [] OTHER -> <<>>

\* /contest/<cid>/submit: the options of the problem dropdown, value and text.
SubmitOptions(cid) ==
    CASE cid = 3 ->
           << [value |-> <<>>, text |-> <<"-">>],
              [value |-> <<"1", "0">>, text |-> <<"A", "*", ":", "t2">>],
              [value |-> <<"1", "1">>, text |-> <<"a", ":", "t3">>] >>
      [] cid = 4 ->
           << [value |-> <<"2", "0">>, text |-> <<"B", ":", "t4">>] >>
      [] OTHER -> <<>>

\* The answers of POST /login: a redirect that sets the session cookie, or the
\* login page again.
Resp302 ==
    [status |-> 302,
     cookie |-> <<"satori_token", "=", "T1", ";", " ", "Path", "=", "/">>]
Resp200 == [status |-> 200, cookie |-> <<>>]
LoginResponses == {Resp302, Resp200}

(***************************************************************************)
(* The file system: each path holds no file or a file with its content.     *)
(* suf = -1 is the canonical path, suf >= 0 the temp path with that suffix. *)
(***************************************************************************)
Caches == {"match_contest", "match_submit_problem", "match_problem"}

NoFile == [exists |-> FALSE, data |-> <<>>]
File(data) == [exists |-> TRUE, data |-> data]

SettingsPath == [f |-> "settings", suf |-> -1]
SettingsTmp == [f |-> "settings", suf |-> 0]
CachePath(c) == [f |-> c, suf |-> -1]
CacheTmp(c, n) == [f |-> c, suf |-> n]
Suffixes == 0..(NumSuffix - 1)
CacheDirPaths == {[f |-> c, suf |-> n] : c \in Caches, n \in {-1} \cup Suffixes}
Paths == {SettingsPath, SettingsTmp} \cup CacheDirPaths

\* open(path, 'w'): creates the file, or truncates the one that is there.
fs_open_w(d, path) == [d EXCEPT ![path] = File(<<>>)]

\* write() of `data` at offset `off` of the file at `path`: a write past the
\* end leaves a hole of NULs.
fs_write(d, path, off, data) ==
    LET old == d[path].data
        n == IF Len(old) > off + Len(data) THEN Len(old) ELSE off + Len(data)
    IN [d EXCEPT ![path] =
          File([i \in 1..n |->
                  IF i > off /\ i <= off + Len(data) THEN data[i - off]
                  ELSE IF i <= Len(old) THEN old[i]
                  ELSE Tok("nul")])]

\* os.rename(src, dst): dst names the file src named, src names nothing.
fs_rename(d, src, dst) == [d EXCEPT ![dst] = d[src], ![src] = NoFile]

fs_unlink(d, path) == [d EXCEPT ![path] = NoFile]

(***************************************************************************)
(* The state a Session works on, and the outcome of a call: a return value  *)
(* or a raised exception, with the state the call leaves.                   *)
(***************************************************************************)
FreshCache == [c \in Caches |-> [loaded |-> FALSE, data |-> EmptyDict]]

\* src/satori.py:85 Session.__init__
Session_init(d) ==
    [settings |-> EmptyDict, cache |-> FreshCache, disk |-> d,
     log |-> <<>>, invs |-> <<>>]

Ret(w, v) == [w |-> w, ok |-> TRUE, val |-> v, err |-> "none"]
Raise(w, e) == [w |-> w, ok |-> FALSE, val |-> PyNone, err |-> e]

K_username == <<"username">>
K_password == <<"password">>
K_token == <<"satori_token">>

(***************************************************************************)
(* str.encode('hex') / str.decode('hex') on the password.                   *)
(***************************************************************************)
PwChars == {"p", "w", "x"}
CharCode(c) == CASE c = "p" -> 112 [] c = "w" -> 119 [] c = "x" -> 120
HexDigit(n) ==
    <<"0", "1", "2", "3", "4", "5", "6", "7", "8", "9", "a", "b", "c", "d", "e", "f">>[n + 1]
HexVal(h) == CHOOSE n \in 0..15 : HexDigit(n) = h

RECURSIVE HexEncode(_)
HexEncode(s) ==
    IF s = <<>> THEN <<>>
    ELSE <<HexDigit(CharCode(s[1]) \div 16), HexDigit(CharCode(s[1]) % 16)>>
         \o HexEncode(Tail(s))

RECURSIVE HexDecode(_)
HexDecode(h) ==
    IF Len(h) < 2 THEN <<>>
    ELSE <<CHOOSE c \in PwChars : CharCode(c) = 16 * HexVal(h[1]) + HexVal(h[2])>>
         \o HexDecode(SubSeq(h, 3, Len(h)))

(***************************************************************************)
(* Session: settings, login, request.                                       *)
(***************************************************************************)
\* src/satori.py:94 Session.load: a missing file leaves the settings empty; a
\* file that does not parse raises (ValueError is not caught).
Session_load(w) ==
    LET f == w.disk[SettingsPath]
    IN IF ~f.exists THEN Ret(w, PyNone)
       ELSE IF ~json_ok(f.data) THEN Raise(w, "ValueError")
       ELSE Ret([w EXCEPT !.settings = json_load(f.data)], PyNone)

\* src/satori.py:101 Session.save, as one step: open the temp file, dump, rename.
Session_save(w) ==
    LET d1 == fs_open_w(w.disk, SettingsTmp)
        d2 == fs_write(d1, SettingsTmp, 0, json_dump(w.settings))
    IN Ret([w EXCEPT !.disk = fs_rename(d2, SettingsTmp, SettingsPath)], PyNone)

\* src/satori.py:106 Session.login
Session_login(w, username, password) ==
    LET s1 == DictSet(w.settings, K_username, PyStr(username))
        s2 == DictSet(s1, K_password, PyStr(HexEncode(password)))
    IN [w EXCEPT !.settings = s2]

\* A request as the log of an operation records it; status is the answer's.
Event(ev, path, token, data, status) ==
    [ev |-> ev, path |-> path, token |-> token, data |-> data, status |-> status]
NoPath == [kind |-> "login", cid |-> 0, sid |-> 0]

\* src/satori.py:129 Session._login.  env.resp is the site's answer to the POST.
Session__login(w, env) ==
    IF ~DictHas(w.settings, K_username) \/ ~DictHas(w.settings, K_password)
    THEN Raise(w, "KeyError")
    ELSE
      LET w1 == [w EXCEPT !.log =
                    Append(@, Event("POST", NoPath, PyNone,
                                    <<DictGet(w.settings, K_username).s,
                                      HexDecode(DictGet(w.settings, K_password).s)>>,
                                    env.resp.status))]
          parts == Split(env.resp.cookie, "=")
      IN IF env.resp.status = 302
         THEN IF Len(parts) < 2 THEN Raise(w1, "IndexError")
              ELSE Ret([w1 EXCEPT !.settings =
                           DictSet(@, K_token, PyStr(Split(parts[2], ";")[1]))],
                       PyNone)
         ELSE Raise(w1, "SatoriError: invalid login")

\* What the site serves at a path (env.status: the status the results page shows).
ServerPage(path, env) ==
    CASE path.kind = "select" -> ContestTables
      [] path.kind = "problems" -> ProblemRows(path.cid)
      [] path.kind = "submit" -> SubmitOptions(path.cid)
      [] OTHER -> env.status

\* src/satori.py:115 Session.request, once a token is held or the login is
\* over with outcome l: an exception of the login propagates, otherwise the
\* request is sent with the token as its cookie.
Session_request_anyway(l, env, path) ==
    Ret([l.w EXCEPT !.log =
            Append(@, Event("GET", path,
                            IF DictHas(l.w.settings, K_token)
                            THEN DictGet(l.w.settings, K_token) ELSE PyNone,
                            <<>>, 200))],
        ServerPage(path, env))

Session_request_send(l, env, path) ==
    IF ~l.ok THEN l
    ELSE Ret([l.w EXCEPT !.log =
                 Append(@, Event("GET", path, DictGet(l.w.settings, K_token), <<>>, 200))],
             ServerPage(path, env))

\* src/satori.py:112 Session.request
Session_request(w, env, path) ==
    Session_request_send(IF ~DictHas(w.settings, K_token) THEN Session__login(w, env)
                         ELSE Ret(w, PyNone),
                         env, path)

(***************************************************************************)
(* Cache.                                                                   *)
(***************************************************************************)
\* src/satori.py:39 Cache.load
Cache_load(w, c) ==
    LET f == w.disk[CachePath(c)]
    IN IF w.cache[c].loaded THEN Ret(w, PyNone)
       ELSE IF ~f.exists
         THEN Ret([w EXCEPT !.cache[c] = [loaded |-> TRUE, data |-> EmptyDict]], PyNone)
       ELSE IF ~json_ok(f.data) THEN Raise(w, "ValueError")
       ELSE Ret([w EXCEPT !.cache[c] = [loaded |-> TRUE, data |-> json_load(f.data)]],
                PyNone)

\* src/satori.py:48 Cache.save, as one step.  env.suf is what randrange drew.
Cache_save(w, env, c) ==
    LET tmp == CacheTmp(c, env.suf)
        d1 == fs_open_w(w.disk, tmp)
        d2 == fs_write(d1, tmp, 0, json_dump(w.cache[c].data))
    IN Ret([w EXCEPT !.disk = fs_rename(d2, tmp, CachePath(c))], PyNone)

\* src/satori.py:54 Cache.__setitem__
Cache_setitem_only(w, env, c, key, value) ==
    LET l == Cache_load(w, c)
    IN IF ~l.ok THEN l
       ELSE Cache_save([l.w EXCEPT !.cache[c].data = <<[k |-> key, v |-> value]>>],
                       env, c)

Cache_setitem(w, env, c, key, value) ==
    LET l == Cache_load(w, c)
    IN IF ~l.ok THEN l
       ELSE Cache_save([l.w EXCEPT !.cache[c].data = DictSet(@, key, value)], env, c)

\* src/satori.py:59 Cache.__getitem__
Cache_getitem(w, c, key) ==
    LET l == Cache_load(w, c)
    IN IF ~l.ok THEN l
       ELSE IF ~DictHas(l.w.cache[c].data, key) THEN Raise(l.w, "KeyError")
       ELSE Ret(l.w, DictGet(l.w.cache[c].data, key))

\* src/satori.py:63 Cache.__contains__
Cache_contains(w, c, key) ==
    LET l == Cache_load(w, c)
    IN IF ~l.ok THEN l ELSE Ret(l.w, DictHas(l.w.cache[c].data, key))

\* src/satori.py:67 Cache.get
Cache_get(w, c, key, default) ==
    LET l == Cache_load(w, c)
    IN IF ~l.ok THEN l
       ELSE IF DictHas(l.w.cache[c].data, key) THEN Ret(l.w, DictGet(l.w.cache[c].data, key))
       ELSE Ret(l.w, default)

(***************************************************************************)
(* The resolvers and the memoization wrapper.                               *)
(***************************************************************************)
Min(S) == CHOOSE x \in S : \A y \in S : x <= y
Max(S) == CHOOSE x \in S : \A y \in S : x >= y

RECURSIVE Flatten(_)
Flatten(ss) == IF ss = <<>> THEN <<>> ELSE ss[1] \o Flatten(Tail(ss))

Path(kind, cid, sid) == [kind |-> kind, cid |-> cid, sid |-> sid]

\* One invocation of a wrapper, as the history of the call records it: whether
\* the wrapped function was called, and how the invocation ended.
Noted(r, c, key, called) ==
    [r EXCEPT !.w.invs =
        Append(@, [c |-> c, key |-> key, called |-> called, ok |-> r.ok, val |-> r.val])]

\* src/satori.py:74 the wrapper's key.
CacheKey(args) == Repr(PyTuple(args))

\* src/satori.py:76 the wrapper's test `key not in cache`.
cached_lookup(w, c, args) == Cache_contains(w, c, CacheKey(args))

\* src/satori.py:77 `cache[key] = ...` and `return cache[key]`, s being the
\* outcome of the assignment.
cached_return(s, c, key) ==
    IF ~s.ok THEN Noted(s, c, key, TRUE)
    ELSE Noted(Cache_getitem(s.w, c, key), c, key, TRUE)

\* src/satori.py:71 cached: the wrapper of the method that uses cache c, given
\* the outcome h of its lookup and the outcome r the wrapped function has when
\* called in the state the lookup leaves (it is called on a miss only).
cached_always(h, r, env, c, args) ==
    IF ~h.ok THEN Noted(h, c, CacheKey(args), FALSE)
    ELSE IF ~r.ok THEN Noted(r, c, CacheKey(args), TRUE)
    ELSE cached_return(Cache_setitem(r.w, env, c, CacheKey(args), r.val), c, CacheKey(args))

cached(h, r, env, c, args) ==
    IF ~h.ok THEN Noted(h, c, CacheKey(args), FALSE)
    ELSE IF h.val THEN Noted(Cache_getitem(h.w, c, CacheKey(args)), c, CacheKey(args), FALSE)
    ELSE IF ~r.ok THEN Noted(r, c, CacheKey(args), TRUE)
    ELSE cached_return(Cache_setitem(r.w, env, c, CacheKey(args), r.val), c, CacheKey(args))

\* src/satori.py:149 the rows get_contests yields from the tables it looks at:
\* the (name, id) of every row whose link starts with /contest/.
ContestRows(tables) ==
    LET rows == SelectSeq(Flatten(tables),
                          LAMBDA row : StartsWith(row.link, <<"/", "contest", "/">>))
    IN [i \in DOMAIN rows |-> <<rows[i].name, IntOfStr(Split(rows[i].link, "/")[3])>>]

\* src/satori.py:146 get_contests on the outcome r of its request.
get_contests_rows(r, other) ==
    IF ~r.ok THEN r
    ELSE Ret(r.w, ContestRows(IF other THEN r.val ELSE <<r.val[1]>>))

\* src/satori.py:144 Session.get_contests
get_contests(w, env, other) ==
    get_contests_rows(Session_request(w, env, Path("select", 0, 0)), other)

\* src/satori.py:162 match_contest's search of the contests r lists: the first
\* whose name contains the query, case-insensitively.
match_contest_search(r, query) ==
    LET hits == {i \in DOMAIN r.val : Contains(Lower(r.val[i][1]), Lower(query.s))}
    IN IF ~r.ok THEN r
       ELSE IF hits = {} THEN Raise(r.w, "SatoriError: no contest found")
       ELSE Ret(r.w, PyInt(r.val[Min(hits)][2]))

\* src/satori.py:158 Session.match_contest, the function under the decorator.
match_contest_func(w, env, query) ==
    IF IntOk(query) THEN Ret(w, PyInt(IntOf(query)))
    ELSE match_contest_search(get_contests(w, env, Truthy(query)), query)

\* src/satori.py:157 the decorated match_contest.
match_contest_wrap(h, env, query) ==
    cached(h, match_contest_func(h.w, env, query), env, "match_contest", <<query>>)

match_contest(w, env, query) ==
    match_contest_wrap(cached_lookup(w, "match_contest", <<query>>), env, query)

\* src/satori.py:175 one row of the problems page as get_problems yields it:
\* (id, pdf, url, code, name, desc).
ProblemRow(x) ==
    <<IF Truthy(x.pdf) THEN PyInt(IntOfStr(Split(x.pdf.s, "/")[4])) ELSE PyNone,
      x.pdf,
      IF Truthy(x.url) THEN x.url.items[1] ELSE x.url,
      x.code, x.name, x.desc>>

\* src/satori.py:174 get_problems on the outcome r of its request.
get_problems_rows(r) ==
    IF ~r.ok THEN r ELSE Ret(r.w, [i \in DOMAIN r.val |-> ProblemRow(r.val[i])])

\* src/satori.py:172 get_problems on the outcome m of match_contest(contest).
get_problems_fetch(m, env) ==
    IF ~m.ok THEN m
    ELSE get_problems_rows(Session_request(m.w, env, Path("problems", m.val.n, 0)))

\* src/satori.py:171 Session.get_problems
get_problems(w, env, contest) == get_problems_fetch(match_contest(w, env, contest), env)

\* src/satori.py:201 one option of the submit page as get_submit_problems
\* yields it: (id, code, name).
SubmitRow(o) ==
    <<PyInt(IntOfStr(o.value)), Split(o.text, ":")[1],
      Join(Tail(Split(o.text, ":")), <<":">>)>>

\* src/satori.py:198 get_submit_problems on the outcome r of its request: the
\* options that have a value.
get_submit_problems_rows(r) ==
    LET opts == SelectSeq(r.val, LAMBDA o : o.value # <<>>)
    IN IF ~r.ok THEN r ELSE Ret(r.w, [i \in DOMAIN opts |-> SubmitRow(opts[i])])

\* src/satori.py:197 get_submit_problems on the outcome m of match_contest.
get_submit_problems_fetch(m, env) ==
    IF ~m.ok THEN m
    ELSE get_submit_problems_rows(Session_request(m.w, env, Path("submit", m.val.n, 0)))

\* src/satori.py:196 Session.get_submit_problems
get_submit_problems(w, env, contest) ==
    get_submit_problems_fetch(match_contest(w, env, contest), env)

\* `for a, b, ... in rows: if match_code(problem, code): return ...`: the index
\* of the first row that ends the loop, by a failed unpacking or by a match
\* (0: the loop runs to its end).
FirstStop(rows, arity, codeAt, problem) ==
    LET stops == {i \in DOMAIN rows :
                    Len(rows[i]) # arity \/ match_code(problem.s, rows[i][codeAt])}
    IN IF stops = {} THEN 0 ELSE Min(stops)

\* src/satori.py:218 match_submit_problem's loop over the rows r lists, each
\* unpacked into (id, code, desc).
match_submit_problem_search(r, problem) ==
    LET i == FirstStop(r.val, 3, 2, problem)
    IN IF ~r.ok THEN r
       ELSE IF i = 0 THEN Raise(r.w, "SatoriError: unknown problem")
       ELSE IF Len(r.val[i]) # 3 THEN Raise(r.w, "ValueError")
       ELSE Ret(r.w, PyTuple(<<r.val[i][1], PyStr(r.val[i][2])>>))

\* src/satori.py:212 Session.match_submit_problem, the function under the
\* decorator: it lists get_problems(problem).
match_submit_problem_func(w, env, contest, problem) ==
    IF IntOk(problem) THEN Ret(w, PyInt(IntOf(problem)))
    ELSE match_submit_problem_search(get_problems(w, env, problem), problem)

\* src/satori.py:211 the decorated match_submit_problem.
match_submit_problem_wrap(h, env, contest, problem) ==
    cached(h, match_submit_problem_func(h.w, env, contest, problem), env,
           "match_submit_problem", <<contest, problem>>)

match_submit_problem(w, env, contest, problem) ==
    match_submit_problem_wrap(
        cached_lookup(w, "match_submit_problem", <<contest, problem>>),
        env, contest, problem)

\* src/satori.py:230 match_problem's loop over the rows r lists, each unpacked
\* into (id, pdf, url, code, title, desc).
match_problem_search_last(r, problem) ==
    LET hits == {i \in DOMAIN r.val : match_code(problem.s, r.val[i][4])}
    IN IF ~r.ok THEN r
       ELSE IF hits = {} THEN Raise(r.w, "SatoriError: unknown problem")
       ELSE Ret(r.w, PyTuple(<<r.val[Max(hits)][1], r.val[Max(hits)][2],
                               r.val[Max(hits)][3]>>))

match_problem_search(r, problem) ==
    LET i == FirstStop(r.val, 6, 4, problem)
    IN IF ~r.ok THEN r
       ELSE IF i = 0 THEN Raise(r.w, "SatoriError: unknown problem")
       ELSE IF Len(r.val[i]) # 6 THEN Raise(r.w, "ValueError")
       ELSE Ret(r.w, PyTuple(<<r.val[i][1], r.val[i][2], r.val[i][3]>>))

\* src/satori.py:224 Session.match_problem, the function under the decorator.
match_problem_func_noshortcut(w, env, contest, problem) ==
    match_problem_search(get_problems(w, env, contest), problem)

match_problem_func(w, env, contest, problem) ==
    IF IntOk(problem) THEN Ret(w, PyInt(IntOf(problem)))
    ELSE match_problem_search(get_problems(w, env, contest), problem)

\* src/satori.py:223 the decorated match_problem.
match_problem_wrap(h, env, contest, problem) ==
    cached(h, match_problem_func(h.w, env, contest, problem), env,
           "match_problem", <<contest, problem>>)

match_problem(w, env, contest, problem) ==
    match_problem_wrap(cached_lookup(w, "match_problem", <<contest, problem>>),
                       env, contest, problem)

(***************************************************************************)
(* State.                                                                   *)
(***************************************************************************)
VARIABLES
    disk,        \* the settings file, the cache files and their temp files
    running,     \* a process holding a Session is alive
    sess,        \* its Session: settings and the three Cache objects
    run,         \* process runs started so far
    nops,        \* operations performed so far
    last,        \* the last operation: arguments, outcome, requests, invocations
    stored,      \* history: the values the wrappers stored since the last clear-cache
    invoked,     \* history: the (cache, key) invoked since the last clear-cache
    loginRun,    \* history: the run in which a login last succeeded (0: none)
    wpc,         \* wait: where the poller is
    script,      \* wait: the statuses the site will show on the polls to come
    shown,       \* wait: the statuses the polls made so far were shown
    wcontest,    \* wait: the local variable contest, once resolved
    last_status, \* wait: the local variable last_status
    notified,    \* wait: the notifications sent, each with the poll that sent it
    pc,          \* save: where each saving process is
    target,      \* save: which file the processes save ("settings" or a cache)
    mem,         \* save: each process's mapping
    tmp,         \* save: the temp path each process chose
    fd,          \* save: what each process's open file now is
    off,         \* save: each process's file offset
    nsaves,      \* save: saves each process started
    prior,       \* save: what the canonical path held when each process's save began
    renamed      \* save: the processes in the order their renames completed

sessVars == <<running, sess, run, nops, last, stored, invoked, loginRun>>
waitVars == <<wpc, script, shown, wcontest, last_status, notified>>
saveVars == <<pc, target, mem, tmp, fd, off, nsaves, prior, renamed>>
vars == <<disk, sessVars, waitVars, saveVars>>

Procs == {1, 2}

\* The inputs the operations are tried on.
ContestQueries == {PyStr(<<"a">>), PyStr(<<"z">>), PyStr(<<"4">>)}
ProblemQueries == {PyStr(<<"a">>), PyStr(<<"b">>), PyStr(<<"7">>)}
Usernames == {<<"user">>}
Passwords == {<<"p", "w">>}

NoSess == [settings |-> EmptyDict, cache |-> FreshCache]
NoLast ==
    [op |-> "none", args |-> <<>>, ok |-> TRUE, val |-> PyNone, err |-> "none",
     log |-> <<>>, invs |-> <<>>, tok |-> FALSE, run |-> 0]

\* The settings file a login command leaves behind.
LoggedInSettings ==
    <<[k |-> K_username, v |-> PyStr(<<"user">>)],
      [k |-> K_password, v |-> PyStr(HexEncode(<<"p", "w">>))],
      [k |-> K_token, v |-> PyStr(<<"T1">>)]>>

EmptyDisk == [p \in Paths |-> NoFile]

\* A process's file object: closed, open on the file that is at a path, or open
\* on a file that no path names any more.
NoFd == [f |-> "closed", suf |-> -2]
OrphanFd == [f |-> "orphan", suf |-> -2]

SessIdle ==
    /\ running = FALSE /\ sess = NoSess /\ run = 0 /\ nops = 0 /\ last = NoLast
    /\ stored = {} /\ invoked = {} /\ loginRun = 0
WaitIdle ==
    /\ wpc = "idle" /\ script = <<>> /\ shown = <<>> /\ wcontest = PyNone
    /\ last_status = ""
    /\ notified = <<>>
SaveIdle ==
    /\ pc = [p \in Procs |-> "off"] /\ target = "none"
    /\ mem = [p \in Procs |-> EmptyDict] /\ tmp = [p \in Procs |-> SettingsTmp]
    /\ fd = [p \in Procs |-> NoFd] /\ off = [p \in Procs |-> 0]
    /\ nsaves = [p \in Procs |-> 0] /\ prior = [p \in Procs |-> NoFile]
    /\ renamed = <<>>

(***************************************************************************)
(* Spec: process runs one after another.  A run is a login command, a       *)
(* clear-cache command, or a Session on which resolver methods are called   *)
(* until the process exits or a call raises.                                *)
(***************************************************************************)
Init ==
    /\ disk \in {EmptyDisk, [EmptyDisk EXCEPT ![SettingsPath] = File(json_dump(LoggedInSettings))]}
    /\ SessIdle /\ WaitIdle /\ SaveIdle

World == [settings |-> sess.settings, cache |-> sess.cache, disk |-> disk,
          log |-> <<>>, invs |-> <<>>]

\* An invocation with what the history knows of its (cache, key): whether it
\* was invoked before, and whether an invocation of it returned before (in an
\* earlier operation, or earlier in this one).
WithHistory(invs, i) ==
    [c |-> invs[i].c, key |-> invs[i].key, called |-> invs[i].called,
     ok |-> invs[i].ok, val |-> invs[i].val,
     invokedBefore |->
        \/ <<invs[i].c, invs[i].key>> \in invoked
        \/ \E j \in 1..(i - 1) : invs[j].c = invs[i].c /\ invs[j].key = invs[i].key,
     returnedBefore |->
        \/ \E st \in stored : st.c = invs[i].c /\ st.key = invs[i].key
        \/ \E j \in 1..(i - 1) :
              invs[j].c = invs[i].c /\ invs[j].key = invs[i].key /\ invs[j].ok]

Outcome(op, args, r) ==
    [op |-> op, args |-> args, ok |-> r.ok, val |-> r.val, err |-> r.err,
     log |-> r.w.log, invs |-> [i \in DOMAIN r.w.invs |-> WithHistory(r.w.invs, i)],
     tok |-> DictHas(r.w.settings, K_token), run |-> run']

\* The history kept of an operation's wrapper invocations.
Record(r) ==
    /\ stored' = stored \cup
          {[c |-> r.w.invs[i].c, key |-> r.w.invs[i].key, v |-> r.w.invs[i].val, run |-> run'] :
             i \in {j \in DOMAIN r.w.invs : r.w.invs[j].called /\ r.w.invs[j].ok}}
    /\ invoked' = invoked \cup {<<r.w.invs[i].c, r.w.invs[i].key>> : i \in DOMAIN r.w.invs}

\* src/satori.py:334 sess = Session(); sess.load()
Start ==
    /\ ~running /\ run < MaxRuns
    /\ LET r == Session_load(Session_init(disk))
       IN /\ running' = r.ok
          /\ sess' = IF r.ok THEN [settings |-> r.w.settings, cache |-> r.w.cache] ELSE NoSess
    /\ run' = run + 1
    /\ last' = [NoLast EXCEPT !.run = run']
    /\ UNCHANGED <<disk, nops, stored, invoked, loginRun, waitVars, saveVars>>

\* What an operation gets from outside: the site's answer to a login, the
\* suffix random.randrange draws, the status a results page shows.
StatusPage(problem, status, rows) == [problem |-> problem, status |-> status, rows |-> rows]
EnvWith(resp, suf, page) == [resp |-> resp, suf |-> suf, status |-> page]
Env(resp, suf) == EnvWith(resp, suf, StatusPage(<<>>, "", <<>>))

\* A method call on the running Session; an exception ends the process.
Call(op, args, r) ==
    /\ running /\ nops < MaxOps
    /\ nops' = nops + 1
    /\ run' = run
    /\ disk' = r.w.disk
    /\ running' = r.ok
    /\ sess' = IF r.ok THEN [settings |-> r.w.settings, cache |-> r.w.cache] ELSE NoSess
    /\ last' = Outcome(op, args, r)
    /\ Record(r)
    /\ UNCHANGED <<loginRun, waitVars, saveVars>>

MatchContest ==
    \E q \in ContestQueries, resp \in LoginResponses, suf \in Suffixes :
        Call("match_contest", <<q>>, match_contest(World, Env(resp, suf), q))

MatchProblem ==
    \E c \in ContestQueries, q \in ProblemQueries, resp \in LoginResponses,
       suf \in Suffixes :
        Call("match_problem", <<c, q>>, match_problem(World, Env(resp, suf), c, q))

MatchSubmitProblem ==
    \E c \in ContestQueries, q \in ProblemQueries, resp \in LoginResponses,
       suf \in Suffixes :
        Call("match_submit_problem", <<c, q>>,
             match_submit_problem(World, Env(resp, suf), c, q))

\* The process ends.
Exit ==
    /\ running
    /\ running' = FALSE
    /\ sess' = NoSess
    /\ UNCHANGED <<disk, run, nops, last, stored, invoked, loginRun, waitVars, saveVars>>

\* src/satori.py:167 Session.print_contests: prints the rows, returns None.
print_contests_rows(r) == IF ~r.ok THEN r ELSE Ret(r.w, PyNone)

print_contests(w, env, other) == print_contests_rows(get_contests(w, env, other))

PrintContests ==
    \E other \in BOOLEAN, resp \in LoginResponses, suf \in Suffixes :
        Call("contests", <<>>, print_contests(World, Env(resp, suf), other))

\* src/satori.py:341 the login command's sess.save(), reached when
\* print_contests (outcome c) has not raised.
main_login_nosave(c) == c

main_login_save(c) == IF ~c.ok THEN c ELSE Session_save(c.w)

\* src/satori.py:338 the login command after sess.load() (outcome l).
main_login_run(l, env, username, password) ==
    IF ~l.ok THEN l
    ELSE main_login_save(print_contests(Session_login(l.w, username, password), env, FALSE))

\* src/satori.py:334 the login command: load, login, print_contests, save.
main_login(d, env, username, password) ==
    main_login_run(Session_load(Session_init(d)), env, username, password)

LoggedIn(r) ==
    /\ \E i \in DOMAIN r.w.log : r.w.log[i].ev = "POST"
    /\ DictHas(r.w.settings, K_token)

\* A process that runs one command from start to exit.
Command(op, args, r) ==
    /\ ~running /\ run < MaxRuns /\ nops < MaxOps
    /\ run' = run + 1
    /\ nops' = nops + 1
    /\ disk' = r.w.disk
    /\ last' = Outcome(op, args, r)
    /\ loginRun' = IF LoggedIn(r) THEN run' ELSE loginRun
    /\ UNCHANGED <<running, sess, waitVars, saveVars>>

CmdLogin ==
    \E u \in Usernames, p \in Passwords, resp \in LoginResponses, suf \in Suffixes :
        /\ Command("login", <<PyStr(u), PyStr(p)>>, main_login(disk, Env(resp, suf), u, p))
        /\ UNCHANGED <<stored, invoked>>

\* src/satori.py:374 the clear-cache command after sess.load() (outcome l):
\* unlink every file of the cache directory.
main_clear_cache_run(l) ==
    IF ~l.ok THEN l
    ELSE Ret([l.w EXCEPT !.disk =
                 [p \in Paths |-> IF p \in CacheDirPaths THEN NoFile ELSE l.w.disk[p]]],
             PyNone)

\* src/satori.py:373 the clear-cache command.
main_clear_cache(d) == main_clear_cache_run(Session_load(Session_init(d)))

Cleared(r) ==
    /\ stored' = IF r.ok THEN {} ELSE stored
    /\ invoked' = IF r.ok THEN {} ELSE invoked

ClearCache ==
    /\ Command("clear-cache", <<>>, main_clear_cache(disk))
    /\ Cleared(main_clear_cache(disk))

Next ==
    \/ Start
    \/ MatchContest
    \/ MatchProblem
    \/ MatchSubmitProblem
    \/ PrintContests
    \/ CmdLogin
    \/ ClearCache
    \/ Exit

Spec == Init /\ [][Next]_vars

(***************************************************************************)
(* SpecWait: the wait command.  The site shows the statuses of `script`,    *)
(* one on each poll; the poller has nothing to poll once they are used up.  *)
(***************************************************************************)
Statuses == {"", "QUE", "OK", "ANS"}
\* The submission waited for (the command line's third argument).
SubmitIds == {5}

RECURSIVE SeqsUpTo(_, _)
SeqsUpTo(S, n) ==
    IF n = 0 THEN {<<>>}
    ELSE SeqsUpTo(S, n - 1) \cup
         {Append(q, x) : q \in {t \in SeqsUpTo(S, n - 1) : Len(t) = n - 1}, x \in S}

\* The results page of the submission when its status is st: the header row
\* and one row per test.
ResultsPage(st) ==
    StatusPage(<<"A", "*">>, st, <<<<"Test", "Status">>, <<"t0", st>>>>)

\* src/satori.py:253 get_status on the outcome r of its request: the problem,
\* the status, and the (name, status) of the rows after the header.
get_status_parse(r) ==
    IF ~r.ok THEN r
    ELSE Ret(r.w, [problem |-> r.val.problem, status |-> r.val.status,
                   tests |-> Tail(r.val.rows)])

\* src/satori.py:251 get_status on the outcome m of match_contest(contest).
get_status_fetch(m, env, id) ==
    IF ~m.ok THEN m
    ELSE get_status_parse(Session_request(m.w, env, Path("results", m.val.n, id)))

\* src/satori.py:250 Session.get_status
get_status(w, env, contest, id) == get_status_fetch(match_contest(w, env, contest), env, id)

\* src/satori.py:282 one turn of wait's loop on the status just fetched: whether
\* it notifies, the new last_status, and whether it breaks.
wait_turn_nonque(prev, status) ==
    [notify |-> status # prev,
     last_status |-> IF status # prev THEN status ELSE prev,
     break |-> status # "QUE"]

wait_turn(prev, status) ==
    [notify |-> status # prev,
     last_status |-> IF status # prev THEN status ELSE prev,
     break |-> status # "" /\ status # "QUE"]

\* src/satori.py:371 the wait command up to the loop, after sess.load()
\* (outcome l): contest = sess.match_contest(contest).
wait_begin_run(l, env, contest) == IF ~l.ok THEN l ELSE match_contest(l.w, env, contest)

wait_begin(d, env, contest) == wait_begin_run(Session_load(Session_init(d)), env, contest)

WaitBegun(r) ==
    /\ wpc' = IF r.ok THEN "polling" ELSE "error"
    /\ wcontest' = r.val
    /\ last_status' = ""
    /\ disk' = r.w.disk
    /\ running' = r.ok
    /\ sess' = IF r.ok THEN [settings |-> r.w.settings, cache |-> r.w.cache] ELSE NoSess
    /\ UNCHANGED <<script, shown, notified, run, nops, last, stored, invoked, loginRun,
                   saveVars>>

\* src/satori.py:278 wait, up to its loop.
WaitStart ==
    \E q \in ContestQueries, resp \in LoginResponses, suf \in Suffixes :
        /\ wpc = "idle"
        /\ WaitBegun(wait_begin(disk, Env(resp, suf), q))

Polled(r, status) ==
    /\ disk' = r.w.disk
    /\ running' = r.ok
    /\ sess' = IF r.ok THEN [settings |-> r.w.settings, cache |-> r.w.cache] ELSE NoSess
    /\ script' = Tail(script)
    /\ shown' = Append(shown, status)
    /\ IF ~r.ok
       THEN /\ wpc' = "error"
            /\ UNCHANGED <<last_status, notified>>
       ELSE /\ wpc' = IF wait_turn(last_status, r.val.status).break THEN "done" ELSE "polling"
            /\ last_status' = wait_turn(last_status, r.val.status).last_status
            /\ notified' =
                  IF wait_turn(last_status, r.val.status).notify
                  THEN Append(notified, [poll |-> Len(shown'), problem |-> r.val.problem,
                                         status |-> r.val.status])
                  ELSE notified
    /\ UNCHANGED <<wcontest, run, nops, last, stored, invoked, loginRun, saveVars>>

\* src/satori.py:281 one turn of wait's loop: get_status, notify_status on a
\* change, break on a final status (or sleep and go on).
Poll ==
    \E resp \in LoginResponses, suf \in Suffixes, id \in SubmitIds :
        /\ wpc = "polling" /\ script # <<>>
        /\ Polled(get_status(World, EnvWith(resp, suf, ResultsPage(Head(script))),
                             wcontest, id),
                  Head(script))

InitWait ==
    /\ disk \in {EmptyDisk, [EmptyDisk EXCEPT ![SettingsPath] = File(json_dump(LoggedInSettings))]}
    /\ SessIdle /\ SaveIdle
    /\ wpc = "idle" /\ shown = <<>> /\ wcontest = PyNone /\ last_status = ""
    /\ notified = <<>>
    /\ script \in SeqsUpTo(Statuses, MaxPolls)

NextWait ==
    \/ WaitStart
    \/ Poll

SpecWait == InitWait /\ [][NextWait]_vars

(***************************************************************************)
(* SpecSave: processes that store into the same file (`target`: the         *)
(* settings file or a cache file), one system call at a time.  A process    *)
(* loads the file, changes its mapping, and saves: open the temp file,      *)
(* write the text in one or more pieces, close, rename.                     *)
(***************************************************************************)
SaveTargets == {"settings", "match_contest"}
Canon(t) == IF t = "settings" THEN SettingsPath ELSE CachePath(t)

\* The path save writes to: Session.save's fixed '.tmp', Cache.save's
\* '.tmp%d' % random.randrange(...)
save_tmp_inplace(t, suf) == Canon(t)

save_tmp(t, suf) == IF t = "settings" THEN SettingsTmp ELSE CacheTmp(t, suf)

SaveKeys == {CacheKey(<<PyStr(<<"a">>)>>), CacheKey(<<PyStr(<<"4">>)>>)}
SaveValue(p) == PyInt(IF p = 1 THEN 3 ELSE 4)
SaveToken(p) == IF p = 1 THEN <<"T1">> ELSE <<"T2">>

\* What a process changes before it saves: the login command sets the
\* username, the password and the token; cache[key] = value sets one entry.
save_change(t, m, p, key) ==
    IF t = "settings"
    THEN DictSet(DictSet(DictSet(m, K_username, PyStr(<<"user">>)),
                         K_password, PyStr(HexEncode(<<"p", "w">>))),
                 K_token, PyStr(SaveToken(p)))
    ELSE DictSet(m, key, SaveValue(p))

\* Session.load / Cache.load: no file leaves the mapping empty, a text that
\* does not parse raises ValueError.
SaveLoad(p) ==
    /\ pc[p] = "idle"
    /\ IF ~disk[Canon(target)].exists
       THEN pc' = [pc EXCEPT ![p] = "loaded"] /\ mem' = [mem EXCEPT ![p] = EmptyDict]
       ELSE IF ~json_ok(disk[Canon(target)].data)
       THEN pc' = [pc EXCEPT ![p] = "error"] /\ mem' = mem
       ELSE /\ pc' = [pc EXCEPT ![p] = "loaded"]
            /\ mem' = [mem EXCEPT ![p] = json_load(disk[Canon(target)].data)]
    /\ UNCHANGED <<disk, target, tmp, fd, off, nsaves, prior, renamed, sessVars, waitVars>>

\* The change, and save up to open(path + suf, 'w').
SaveOpen(p) ==
    \E key \in SaveKeys, suf \in Suffixes :
        /\ pc[p] = "loaded" \/ (pc[p] = "saved" /\ target # "settings")
        /\ nsaves[1] + nsaves[2] < MaxSaves
        /\ target = "settings" => key = CacheKey(<<PyStr(<<"a">>)>>)
        /\ mem' = [mem EXCEPT ![p] = save_change(target, mem[p], p, key)]
        /\ tmp' = [tmp EXCEPT ![p] = save_tmp(target, suf)]
        /\ disk' = fs_open_w(disk, save_tmp(target, suf))
        /\ fd' = [fd EXCEPT ![p] = save_tmp(target, suf)]
        /\ off' = [off EXCEPT ![p] = 0]
        /\ prior' = [prior EXCEPT ![p] = disk[Canon(target)]]
        /\ nsaves' = [nsaves EXCEPT ![p] = @ + 1]
        /\ pc' = [pc EXCEPT ![p] = "open"]
        /\ UNCHANGED <<target, renamed, sessVars, waitVars>>

\* json.dump(..., f): the next piece of the text reaches the file the file
\* object is open on, at the object's own position.
SaveWrite(p) ==
    \E n \in {1, Len(json_dump(mem[p])) - off[p]} :
        /\ pc[p] = "open"
        /\ off[p] < Len(json_dump(mem[p]))
        /\ disk' = IF fd[p] = OrphanFd THEN disk
                   ELSE fs_write(disk, fd[p], off[p],
                                 SubSeq(json_dump(mem[p]), off[p] + 1, off[p] + n))
        /\ off' = [off EXCEPT ![p] = @ + n]
        /\ UNCHANGED <<pc, target, mem, tmp, fd, nsaves, prior, renamed, sessVars, waitVars>>

\* Leaving the with block closes the file.
SaveClose(p) ==
    /\ pc[p] = "open"
    /\ off[p] = Len(json_dump(mem[p]))
    /\ pc' = [pc EXCEPT ![p] = "closed"]
    /\ fd' = [fd EXCEPT ![p] = NoFd]
    /\ UNCHANGED <<disk, target, mem, tmp, off, nsaves, prior, renamed, sessVars, waitVars>>

\* os.rename(path + suf, path): OSError when the temp file is not there; the
\* file objects open on the temp file follow it, those open on the file that
\* was at the path are left with a file no path names.
SaveRename(p) ==
    /\ pc[p] = "closed"
    /\ IF ~disk[tmp[p]].exists
       THEN /\ pc' = [pc EXCEPT ![p] = "error"]
            /\ UNCHANGED <<disk, fd, renamed>>
       ELSE /\ pc' = [pc EXCEPT ![p] = "saved"]
            /\ disk' = fs_rename(disk, tmp[p], Canon(target))
            /\ fd' = [q \in Procs |->
                        IF tmp[p] = Canon(target) THEN fd[q]
                        ELSE IF fd[q] = tmp[p] THEN Canon(target)
                        ELSE IF fd[q] = Canon(target) THEN OrphanFd
                        ELSE fd[q]]
            /\ renamed' = Append(renamed, [p |-> p, data |-> mem[p]])
    /\ UNCHANGED <<target, mem, tmp, off, nsaves, prior, sessVars, waitVars>>

\* The process dies inside save, before its rename.
Crash(p) ==
    /\ pc[p] \in {"open", "closed"}
    /\ pc' = [pc EXCEPT ![p] = "crashed"]
    /\ fd' = [fd EXCEPT ![p] = NoFd]
    /\ UNCHANGED <<disk, target, mem, tmp, off, nsaves, prior, renamed, sessVars, waitVars>>

\* The process is over; the next run of the program starts.
Restart(p) ==
    /\ pc[p] \in {"saved", "crashed", "error"}
    /\ nsaves[1] + nsaves[2] < MaxSaves
    /\ pc' = [pc EXCEPT ![p] = "idle"]
    /\ mem' = [mem EXCEPT ![p] = EmptyDict]
    /\ UNCHANGED <<disk, target, tmp, fd, off, nsaves, prior, renamed, sessVars, waitVars>>

\* The complete files the target can hold when the processes start.
SaveStartFiles(t) ==
    IF t = "settings"
    THEN {NoFile, File(json_dump(LoggedInSettings))}
    ELSE {NoFile, File(json_dump(<<[k |-> CacheKey(<<PyStr(<<"z">>)>>), v |-> PyInt(4)]>>))}

InitSaveWith(start) ==
    /\ SessIdle /\ WaitIdle
    /\ target \in SaveTargets
    /\ disk \in {[EmptyDisk EXCEPT ![Canon(target)] = f] : f \in SaveStartFiles(target)}
    /\ pc = start
    /\ mem = [p \in Procs |-> EmptyDict] /\ tmp = [p \in Procs |-> save_tmp(target, 0)]
    /\ fd = [p \in Procs |-> NoFd] /\ off = [p \in Procs |-> 0]
    /\ nsaves = [p \in Procs |-> 0] /\ prior = [p \in Procs |-> NoFile]
    /\ renamed = <<>>

NextSave ==
    \E p \in Procs :
        \/ SaveLoad(p)
        \/ SaveOpen(p)
        \/ SaveWrite(p)
        \/ SaveClose(p)
        \/ SaveRename(p)
        \/ Crash(p)
        \/ Restart(p)

\* Two processes save concurrently.
InitSave == InitSaveWith([p \in Procs |-> "idle"])
SpecSave == InitSave /\ [][NextSave]_vars

\* One process at a time saves.
InitSave1 == InitSaveWith([p \in Procs |-> IF p = 1 THEN "idle" ELSE "off"])
SpecSave1 == InitSave1 /\ [][NextSave]_vars

(***************************************************************************)
(* What the specification says the resolvers compute, stated on the pages   *)
(* of the site.                                                             *)
(***************************************************************************)
\* The integer a string is the decimal numeral of, if any.
Numerals == {n \in -99..99 : TRUE}
IsNumeral(s) == \E n \in Numerals : IntStr(n) = s
NumeralValue(s) == CHOOSE n \in Numerals : IntStr(n) = s

\* The contests of the select page, in page order, as (name, id).
ListedContests ==
    <<<<<<"A", "l">>, 3>>, <<<<"L", "a", "b">>, 4>>>>

\* Section 4.3 match_contest: 0 when no contest matches.
SpecContest(q) ==
    IF IsNumeral(q.s) THEN NumeralValue(q.s)
    ELSE LET hits == {i \in DOMAIN ListedContests :
                        Contains(Lower(ListedContests[i][1]), Lower(q.s))}
         IN IF hits = {} THEN 0 ELSE ListedContests[Min(hits)][2]

\* Section 8: match_code(q, c) iff q.lower() == c.lower() or q.lower() + "*" == c.lower().
SpecMatchCode(q, c) == Lower(q) = Lower(c) \/ Lower(q) \o <<"*">> = Lower(c)

\* The place, in listing order, of the first problem of contest cid whose code
\* matches q; 0 when none does.
SpecFirstProblem(cid, q) ==
    LET hits == {i \in DOMAIN ProblemRows(cid) : SpecMatchCode(q.s, ProblemRows(cid)[i].code)}
    IN IF hits = {} THEN 0 ELSE Min(hits)

Listed(kind) == \E i \in DOMAIN last.log : last.log[i].ev = "GET" /\ last.log[i].path.kind = kind

(***************************************************************************)
(* C2.  Memoization.                                                        *)
(***************************************************************************)
\* C2 as stated: an invocation of a wrapper whose (cache, arguments) were
\* invoked before does not call the wrapped function.
C2_SecondInvocationNeverCalls ==
    \A i \in DOMAIN last.invs : last.invs[i].invokedBefore => ~last.invs[i].called

\* C2 amended: an invocation of a wrapper whose (cache, arguments) an earlier
\* invocation returned for does not call the wrapped function, and returns.
C2_NoCallAfterReturn ==
    \A i \in DOMAIN last.invs :
        last.invs[i].returnedBefore => ~last.invs[i].called /\ last.invs[i].ok

\* A second invocation with the same arguments that was served from the cache.
C2_Witness ==
    \E i \in DOMAIN last.invs :
        /\ last.invs[i].returnedBefore /\ ~last.invs[i].called
        /\ last.invs[i].c = "match_problem"

(***************************************************************************)
(* C3.  Login before any request; a failed login sends nothing.             *)
(***************************************************************************)
\* C3: every request of an operation carries a token; a login is the first
\* thing an operation sends and is sent once; a login answered by anything
\* but a 302 raises "invalid login", leaves no token in the settings, and is
\* the last thing the operation sends.
C3_NoRequestWithoutToken ==
    /\ \A i \in DOMAIN last.log :
          /\ last.log[i].ev = "GET" => last.log[i].token.t = "str"
          /\ last.log[i].ev = "POST" => i = 1
          /\ (last.log[i].ev = "POST" /\ last.log[i].status # 302) =>
                /\ ~last.ok /\ last.err = "SatoriError: invalid login"
                /\ ~last.tok
                /\ Len(last.log) = 1
    /\ last.err = "SatoriError: invalid login" =>
          Len(last.log) = 1 /\ last.log[1].ev = "POST" /\ last.log[1].status # 302

\* A login was refused.
C3_Witness ==
    /\ last.err = "SatoriError: invalid login"
    /\ last.log # <<>> /\ last.log[1].status = 200

(***************************************************************************)
(* C4.  match_submit_problem.                                               *)
(***************************************************************************)
\* C4 as stated: for a non-integer problem query, with a token held and the
\* contest argument resolving to a contest, match_submit_problem returns when
\* a code listed for that contest matches the query, and raises "unknown
\* problem" when none does.
C4_SubmitProblemResolves ==
    (/\ last.op = "match_submit_problem"
     /\ ~IsNumeral(last.args[2].s)
     /\ disk[SettingsPath].exists
     /\ SpecContest(last.args[1]) # 0)
    => IF SpecFirstProblem(SpecContest(last.args[1]), last.args[2]) # 0
       THEN last.ok
       ELSE last.err = "SatoriError: unknown problem"

(***************************************************************************)
(* C6.  Integer-valued queries.                                             *)
(***************************************************************************)
\* C6: match_contest and match_problem called with an integer-valued query
\* return that integer and send nothing to the site.
C6_IntegerQueryNoNetwork ==
    (/\ last.op \in {"match_contest", "match_problem"}
     /\ IsNumeral(last.args[Len(last.args)].s))
    => /\ last.ok
       /\ last.val = PyInt(NumeralValue(last.args[Len(last.args)].s))
       /\ last.log = <<>>

\* An integer-valued problem query answered with no token held.
C6_Witness ==
    /\ last.op = "match_problem"
    /\ IsNumeral(last.args[2].s)
    /\ ~last.tok
    /\ last.ok

(***************************************************************************)
(* C7.  match_problem picks the first listed problem whose code matches.    *)
(***************************************************************************)
ProblemTriple(cid, k) ==
    <<ProblemRow(ProblemRows(cid)[k])[1], ProblemRow(ProblemRows(cid)[k])[2],
      ProblemRow(ProblemRows(cid)[k])[3]>>

\* C7: for a non-integer problem query, match_problem returns the (id, pdf,
\* url) of the first listed problem of the contest whose code matches, and
\* raises "unknown problem" exactly when it listed the problems and no code
\* matches.
C7_FirstMatchingProblem ==
    (last.op = "match_problem" /\ ~IsNumeral(last.args[2].s))
    => LET cid == SpecContest(last.args[1])
           k == SpecFirstProblem(cid, last.args[2])
       IN /\ last.ok => cid # 0 /\ k # 0 /\ last.val.items = ProblemTriple(cid, k)
          /\ last.err = "SatoriError: unknown problem" => cid # 0 /\ k = 0
          /\ Listed("problems") =>
                IF k = 0 THEN last.err = "SatoriError: unknown problem" ELSE last.ok

\* Query "a" on the contest that lists "ab", "A*", "a": the second is returned.
C7_Witness ==
    /\ last.op = "match_problem"
    /\ last.args[2] = PyStr(<<"a">>)
    /\ Listed("problems")
    /\ last.ok
    /\ last.val.items[1] = PyInt(10)

(***************************************************************************)
(* C8.  Cache entries stay.                                                 *)
(***************************************************************************)
\* cache.get(key) in a fresh process that loads the cache file.
FreshLookup(c, key) == Cache_get(Session_init(disk), c, key, PyNone)
\* cache.get(key) in the running process.
LookupHere(c, key) == Cache_get(World, c, key, PyNone)
FreshContains(c, key) == Cache_contains(Session_init(disk), c, key)
HereContains(c, key) == Cache_contains(World, c, key)

\* C8 as stated: every value stored since the last clear-cache is what a fresh
\* process that loads the cache file looks up for its key.
C8_FreshLookupReturnsSameValue ==
    \A st \in stored :
        FreshLookup(st.c, st.key).ok /\ FreshLookup(st.c, st.key).val = st.v

\* C8 amended: for every value v stored for a key since the last clear-cache,
\* the key is in the cache; the process that stored it looks up v; a fresh
\* process, and any later process, looks up what JSON gives back for v (v
\* itself for an integer, the list of v's items for a tuple).
C8_EntriesStay ==
    \A st \in stored :
        /\ FreshContains(st.c, st.key).ok /\ FreshContains(st.c, st.key).val
        /\ FreshLookup(st.c, st.key).val = JsonDec(JsonEnc(st.v))
        /\ running =>
              /\ HereContains(st.c, st.key).ok /\ HereContains(st.c, st.key).val
              /\ LookupHere(st.c, st.key).val =
                    IF st.run = run THEN st.v ELSE JsonDec(JsonEnc(st.v))

\* Two entries of one cache, the first stored by an earlier process.
C8_Witness ==
    /\ running
    /\ \E s1 \in stored, s2 \in stored :
          /\ s1.c = "match_problem" /\ s2.c = "match_problem"
          /\ s1.run < s2.run /\ s2.run = run
          /\ s1.v.t = "tuple"

(***************************************************************************)
(* C9.  The token persists.                                                 *)
(***************************************************************************)
\* C9: after a run in which a login succeeded, the settings file holds the
\* token, and the operations of later runs send their requests with it and
\* send no login.
C9_TokenPersists ==
    loginRun > 0 =>
        /\ Session_load(Session_init(disk)).ok
        /\ DictHas(Session_load(Session_init(disk)).w.settings, K_token)
        /\ last.run > loginRun =>
              \A i \in DOMAIN last.log :
                  /\ last.log[i].ev = "GET"
                  /\ last.log[i].token =
                        DictGet(Session_load(Session_init(disk)).w.settings, K_token)

\* A request sent by the run after the one that logged in.
C9_Witness ==
    /\ loginRun = 1
    /\ last.run = 2
    /\ Listed("select")

(***************************************************************************)
(* C1.  The poller.                                                         *)
(***************************************************************************)
Final(st) == st # "" /\ st # "QUE"
ShownBefore(i) == IF i = 1 THEN "" ELSE shown[i - 1]
\* The polls whose status differs from the one observed before.
Changes == {i \in DOMAIN shown : shown[i] # ShownBefore(i)}
Notes == [i \in DOMAIN notified |-> <<notified[i].poll, notified[i].status>>]
RECURSIVE Ascending(_)
Ascending(S) == IF S = {} THEN <<>> ELSE <<Min(S)>> \o Ascending(S \ {Min(S)})

\* C1: while the poller runs, the notifications sent are exactly one for each
\* poll whose status differs from the status of the poll before it (from ""
\* for the first), in order; no poll follows a poll that showed a non-empty
\* status other than "QUE", and wait is over exactly after such a poll.  So
\* ["", "QUE", "QUE", "OK"] gives a notification for "QUE" at the second
\* poll, one for "OK" at the fourth, and the end.
C1_NotifyOnChangeStopOnFinal ==
    wpc \in {"polling", "done"} =>
        /\ Notes = [k \in 1..Cardinality(Changes) |->
                      <<Ascending(Changes)[k], shown[Ascending(Changes)[k]]>>]
        /\ \A i \in 1..(Len(shown) - 1) : ~Final(shown[i])
        /\ wpc = "done" <=> (shown # <<>> /\ Final(shown[Len(shown)]))
        /\ (shown = <<"", "QUE", "QUE", "OK">>) =>
              Notes = <<<<2, "QUE">>, <<4, "OK">>>> /\ wpc = "done"

\* The scenario of the specification, polled to its end.
C1_Witness ==
    /\ shown = <<"", "QUE", "QUE", "OK">>
    /\ wpc = "done"
    /\ Len(notified) = 2

(***************************************************************************)
(* C5, C10.  Saving through a temp file.                                    *)
(***************************************************************************)
Complete(f) == ~f.exists \/ json_ok(f.data)
TempPaths(t) == IF t = "settings" THEN {SettingsTmp} ELSE {CacheTmp(t, n) : n \in Suffixes}

\* C5: with one process saving at a time, from the open of the temp file
\* until the rename, and after a crash between the two, the file at the
\* canonical path is what it was when save began, which is a complete text
\* or no file; what has been written is in the temp file only.
C5_CrashBeforeRenameKeepsFile ==
    \A p \in Procs :
        pc[p] \in {"open", "closed", "crashed"} =>
            /\ disk[Canon(target)] = prior[p]
            /\ Complete(prior[p])
            /\ \A q \in Paths \ TempPaths(target) :
                  disk[q] = IF q = Canon(target) THEN prior[p] ELSE NoFile

\* A crash with part of the text written, over a file that was there.
C5_Witness ==
    /\ pc[1] = "crashed"
    /\ pc[2] = "off"
    /\ prior[1].exists
    /\ disk[Canon(target)] = prior[1]
    /\ disk[tmp[1]].exists /\ ~json_ok(disk[tmp[1]].data) /\ disk[tmp[1]].data # <<>>

\* C10: with two processes saving concurrently, the canonical path holds at
\* every moment no file or a complete text, and once a rename has been done
\* and no process is inside save, it holds the mapping of the process that
\* renamed last.
C10_ConcurrentSaversKeepFileComplete ==
    /\ Complete(disk[Canon(target)])
    /\ (renamed # <<>> /\ \A p \in Procs : pc[p] \notin {"open", "closed"}) =>
          disk[Canon(target)] = File(json_dump(renamed[Len(renamed)].data))

=============================================================================
